---- MODULE Spec2Model ----
(***************************************************************************)
(* epl::SmartObject (epSmartObject.h, _DEBUG branch): an intrusive,        *)
(* lock-guarded reference counter that deletes itself when Release brings  *)
(* the count to zero.  One instance is shared by the threads of Threads;   *)
(* every access of the instance's memory is one step of the calling        *)
(* thread, so that calls interleave the way threads do.                    *)
(***************************************************************************)
EXTENDS Integers, Sequences, FiniteSets, TLC

\* Bounds of the model.
NumThreads == 2
MaxCalls == 4
MaxSeqCalls == 7
MaxRacyCalls == 2
MaxStaleCalls == 2
MaxRefCount == 3

Threads == 1..NumThreads

\* LockPolicy values a constructor can be handed: the three recognized kinds
\* and a value outside them (the switch's default case).
RealPolicies == {"LOCK_POLICY_CRITICALSECTION", "LOCK_POLICY_MUTEX"}
LockPolicies == RealPolicies \cup {"LOCK_POLICY_NONE", "LOCK_POLICY_INVALID"}

VARIABLES
    m_refCount,     \* int m_refCount
    m_lockPolicy,   \* LockPolicy m_lockPolicy
    holders,        \* *m_refCounterLock: threads between Lock() and Unlock()
    objState,       \* "alive" | "freed": the instance's memory
    lockFrees,      \* how many times EP_DELETE m_refCounterLock has run
    pc,             \* each thread's position in the call it is executing
    tmp,            \* each thread's register for m_refCount++ / m_refCount--
    via,            \* how the thread's destructor was entered
    crashed,        \* the process died (null or dangling dereference)
    refs,           \* owning references the clients hold (their bookkeeping)
    dtorCount,      \* how many times each thread entered the destructor
    hist,           \* outcome of every completed call, in order of return
    flags,          \* what the clients have done so far (see the Call actions)
    zeroCount,      \* how many times m_refCount went from non-zero to 0
    staleCalls,     \* calls started after the instance's memory was freed
    inst,           \* the instances of a single-threaded client (CopySpec)
    lastCall        \* the operation that client ran last, and what it returned

vars == <<m_refCount, m_lockPolicy, holders, objState, lockFrees, pc, tmp, via,
          crashed, refs, dtorCount, hist, flags, zeroCount, staleCalls,
          inst, lastCall>>

\* The state of the instance the threads share, less the process's crash
\* flag, and the state of the single-threaded client's instances.
sharedVars == <<m_refCount, m_lockPolicy, holders, objState, lockFrees, pc,
                tmp, via, refs, dtorCount, hist, flags, zeroCount, staleCalls>>
copyVars == <<inst, lastCall>>

\* The names a single-threaded client has for its SmartObjects, and the value
\* of a name that has no constructed instance behind it.
Instances == {"O", "P"}
NoObject == [m_refCount |-> 0, m_lockPolicy |-> "none",
             m_refCounterLock |-> "none", copyOf |-> "none"]
NoCall == [op |-> "none", self |-> "none", b |-> "none", ret |-> "none"]

RECURSIVE Sum(_, _)
Sum(f, S) == IF S = {} THEN 0
             ELSE LET x == CHOOSE y \in S : TRUE IN f[x] + Sum(f, S \ {x})

InProgress == {t \in Threads : pc[t] # "idle"}
Idle(t) == pc[t] = "idle"

\* The switch of the constructor: which policies get a lock object, and
\* which leave m_refCounterLock NULL.
HasLock(policy) == policy \in RealPolicies \cup {"LOCK_POLICY_NONE"}

\* State after SmartObject(lockPolicyType) has run on the creator's thread.
InitShared ==
    /\ m_refCount = 1
    /\ m_lockPolicy \in LockPolicies
    /\ holders = {}
    /\ objState = "alive"
    /\ lockFrees = 0
    /\ pc = [t \in Threads |-> "idle"]
    /\ tmp = [t \in Threads |-> 0]
    /\ via = [t \in Threads |-> "none"]
    /\ crashed = FALSE
    /\ refs = 1
    /\ dtorCount = [t \in Threads |-> 0]
    /\ hist = <<>>
    /\ flags = {}
    /\ zeroCount = 0
    /\ staleCalls = 0

Init ==
    /\ InitShared
    /\ inst = [o \in Instances |-> NoObject]
    /\ lastCall = NoCall

----------------------------------------------------------------------------
\* BaseLock: the lock implementations behind m_refCounterLock.

\* Lock() returns at once for NoLock and for a free lock; CriticalSectionEx
\* and Mutex make the caller wait while any thread holds them.
CanAcquire(policy, h) == policy = "LOCK_POLICY_NONE" \/ h = {}

Acquire(t) ==
    /\ HasLock(m_lockPolicy)
    /\ CanAcquire(m_lockPolicy, holders)
    /\ holders' = holders \cup {t}

Unlock(t) == holders' = holders \ {t}

\* A write of m_refCount.
Store(v) ==
    /\ m_refCount' = v
    /\ zeroCount' = zeroCount + (IF v = 0 /\ m_refCount # 0 THEN 1 ELSE 0)

Goto(t, to) == pc' = [pc EXCEPT ![t] = to]

\* The call returns (normally or by a thrown error) with outcome ev.
Return(t, ev) ==
    /\ pc' = [pc EXCEPT ![t] = "idle"]
    /\ tmp' = [tmp EXCEPT ![t] = 0]
    /\ via' = [via EXCEPT ![t] = "none"]
    /\ hist' = Append(hist, ev)

\* "overlap": a call started while another thread's call was in progress.
Overlap(t) == IF InProgress \ {t} # {} THEN {"overlap"} ELSE {}

\* How many calls a run is followed for, by what the clients have done (the
\* flags f): MaxSeqCalls while no two calls have overlapped; once they have,
\* MaxCalls for clients that keep to the contract, MaxRacyCalls for clients
\* that do not (calls that NoLock leaves unserialized, references released
\* that were not owned, direct deletes).
CallBudget(f) ==
    IF "overlap" \notin f THEN MaxSeqCalls
    ELSE IF m_lockPolicy = "LOCK_POLICY_NONE" \/ f # {"overlap"}
         THEN MaxRacyCalls
    ELSE MaxCalls

\* A client starts a call (while the process runs and calls remain) on an
\* instance that may already have been freed: at most MaxStaleCalls calls
\* are started through a dangling pointer.
Start(t, to, misuse) ==
    LET f == flags \cup Overlap(t) \cup misuse
    IN  /\ ~crashed
        /\ Idle(t)
        /\ Len(hist) + Cardinality(InProgress) < CallBudget(f)
        /\ objState = "freed" => staleCalls < MaxStaleCalls
        /\ pc' = [pc EXCEPT ![t] = to]
        /\ staleCalls' = staleCalls + (IF objState = "freed" THEN 1 ELSE 0)
        /\ flags' = f

Retaining == {t \in Threads : pc[t] \in {"ret_lock", "ret_load", "ret_store",
                                         "ret_unlock"}}

----------------------------------------------------------------------------
\* Retain()

\* A client calls Retain to share the instance.  "unkept": no owning
\* reference exists that keeps the instance alive during the call.
CallRetain(t) ==
    /\ Start(t, "ret_lock", IF refs = 0 THEN {"unkept"} ELSE {})
    /\ UNCHANGED <<m_refCount, m_lockPolicy, holders, objState, lockFrees, tmp,
                   via, crashed, refs, dtorCount, hist, zeroCount,
                   copyVars>>

\* Retain as it would be without the LockObj.
RetainNoLock(t) ==
    /\ ~crashed /\ pc[t] = "ret_lock"
    /\ HasLock(m_lockPolicy)
    /\ Goto(t, "ret_load")
    /\ UNCHANGED <<m_refCount, m_lockPolicy, holders, objState, lockFrees, tmp,
                   via, crashed, refs, dtorCount, hist, flags, zeroCount,
                   staleCalls,
                   copyVars>>

\* LockObj lock(m_refCounterLock);
RetainLock(t) ==
    /\ ~crashed /\ pc[t] = "ret_lock"
    /\ Acquire(t)
    /\ Goto(t, "ret_load")
    /\ UNCHANGED <<m_refCount, m_lockPolicy, objState, lockFrees, tmp, via,
                   crashed, refs, dtorCount, hist, flags, zeroCount,
                   staleCalls,
                   copyVars>>

\* m_refCount++ (the read)
RetainLoad(t) ==
    /\ ~crashed /\ pc[t] = "ret_load"
    /\ tmp' = [tmp EXCEPT ![t] = m_refCount]
    /\ Goto(t, "ret_store")
    /\ UNCHANGED <<m_refCount, m_lockPolicy, holders, objState, lockFrees, via,
                   crashed, refs, dtorCount, hist, flags, zeroCount,
                   staleCalls,
                   copyVars>>

\* Retain as it would be if the increment were lost.
RetainNoIncrement(t) ==
    /\ ~crashed /\ pc[t] = "ret_store"
    /\ Store(tmp[t])
    /\ Goto(t, "ret_unlock")
    /\ UNCHANGED <<m_lockPolicy, holders, objState, lockFrees, tmp, via,
                   crashed, refs, dtorCount, hist, flags, staleCalls,
                   copyVars>>

\* m_refCount++ (the write)
RetainStore(t) ==
    /\ ~crashed /\ pc[t] = "ret_store"
    /\ Store(tmp[t] + 1)
    /\ Goto(t, "ret_unlock")
    /\ UNCHANGED <<m_lockPolicy, holders, objState, lockFrees, tmp, via,
                   crashed, refs, dtorCount, hist, flags,
                   staleCalls,
                   copyVars>>

\* End of scope: ~LockObj unlocks, Retain returns; the clients hold one
\* more owning reference.
RetainReturn(t) ==
    /\ ~crashed /\ pc[t] = "ret_unlock"
    /\ Unlock(t)
    /\ refs' = refs + 1
    /\ Return(t, "Retain")
    /\ UNCHANGED <<m_refCount, m_lockPolicy, objState, lockFrees, crashed,
                   dtorCount, flags, zeroCount,
                   staleCalls,
                   copyVars>>

----------------------------------------------------------------------------
\* Release()

\* A client calls Release, giving up an owning reference.  "unowned": there
\* is none to give up.  "unkept": it is the last one, which a Retain in
\* progress relies on.
CallRelease(t) ==
    /\ Start(t, "rel_lock",
             (IF refs = 0 THEN {"unowned"} ELSE {})
             \cup (IF refs = 1 /\ Retaining # {} THEN {"unkept"} ELSE {}))
    /\ refs' = IF refs > 0 THEN refs - 1 ELSE 0
    /\ UNCHANGED <<m_refCount, m_lockPolicy, holders, objState, lockFrees, tmp,
                   via, crashed, dtorCount, hist, zeroCount,
                   copyVars>>

\* Release as it would be without the Lock() call.
ReleaseNoLock(t) ==
    /\ ~crashed /\ pc[t] = "rel_lock"
    /\ HasLock(m_lockPolicy)
    /\ Goto(t, "rel_load")
    /\ UNCHANGED <<m_refCount, m_lockPolicy, holders, objState, lockFrees, tmp,
                   via, crashed, refs, dtorCount, hist, flags, zeroCount,
                   staleCalls,
                   copyVars>>

\* m_refCounterLock->Lock();
ReleaseLock(t) ==
    /\ ~crashed /\ pc[t] = "rel_lock"
    /\ Acquire(t)
    /\ Goto(t, "rel_load")
    /\ UNCHANGED <<m_refCount, m_lockPolicy, objState, lockFrees, tmp, via,
                   crashed, refs, dtorCount, hist, flags, zeroCount,
                   staleCalls,
                   copyVars>>

\* m_refCount-- (the read)
ReleaseLoad(t) ==
    /\ ~crashed /\ pc[t] = "rel_load"
    /\ tmp' = [tmp EXCEPT ![t] = m_refCount]
    /\ Goto(t, "rel_store")
    /\ UNCHANGED <<m_refCount, m_lockPolicy, holders, objState, lockFrees, via,
                   crashed, refs, dtorCount, hist, flags, zeroCount,
                   staleCalls,
                   copyVars>>

\* Release as it would be if it took two units off the count.
ReleaseDoubleDecrement(t) ==
    /\ ~crashed /\ pc[t] = "rel_store"
    /\ Store(tmp[t] - 2)
    /\ tmp' = [tmp EXCEPT ![t] = @ - 2]
    /\ Goto(t, "rel_test")
    /\ UNCHANGED <<m_lockPolicy, holders, objState, lockFrees, via,
                   crashed, refs, dtorCount, hist, flags, staleCalls,
                   copyVars>>

\* m_refCount-- (the write); tmp keeps the value written.
ReleaseStore(t) ==
    /\ ~crashed /\ pc[t] = "rel_store"
    /\ Store(tmp[t] - 1)
    /\ tmp' = [tmp EXCEPT ![t] = @ - 1]
    /\ Goto(t, "rel_test")
    /\ UNCHANGED <<m_lockPolicy, holders, objState, lockFrees, via,
                   crashed, refs, dtorCount, hist, flags,
                   staleCalls,
                   copyVars>>

\* Release as it would be with the test written if(m_refCount<=0).
ReleaseZeroOrLess(t) ==
    /\ ~crashed /\ pc[t] = "rel_test"
    /\ m_refCount <= 0
    /\ tmp' = [tmp EXCEPT ![t] = m_refCount]
    /\ Goto(t, "rel_dummy")
    /\ UNCHANGED <<m_refCount, m_lockPolicy, holders, objState, lockFrees,
                   via, crashed, refs, dtorCount, hist, flags, zeroCount,
                   staleCalls,
                   copyVars>>

\* if(m_refCount==0) { m_refCount++ (the read)
ReleaseZero(t) ==
    /\ ~crashed /\ pc[t] = "rel_test"
    /\ m_refCount = 0
    /\ tmp' = [tmp EXCEPT ![t] = m_refCount]
    /\ Goto(t, "rel_dummy")
    /\ UNCHANGED <<m_refCount, m_lockPolicy, holders, objState, lockFrees,
                   via, crashed, refs, dtorCount, hist, flags, zeroCount,
                   staleCalls,
                   copyVars>>

\* Release as it would be without the dummy addition.
ReleaseNoDummy(t) ==
    /\ ~crashed /\ pc[t] = "rel_dummy"
    /\ Store(tmp[t])
    /\ Goto(t, "rel_unlock0")
    /\ UNCHANGED <<m_lockPolicy, holders, objState, lockFrees, tmp, via,
                   crashed, refs, dtorCount, hist, flags, staleCalls,
                   copyVars>>

\* m_refCount++ (the write): the dummy addition that pairs with the destructor.
ReleaseDummy(t) ==
    /\ ~crashed /\ pc[t] = "rel_dummy"
    /\ Store(tmp[t] + 1)
    /\ Goto(t, "rel_unlock0")
    /\ UNCHANGED <<m_lockPolicy, holders, objState, lockFrees, tmp, via,
                   crashed, refs, dtorCount, hist, flags,
                   staleCalls,
                   copyVars>>

\* Release as it would be if it deleted the instance with the lock held.
ReleaseDeleteLocked(t) ==
    /\ ~crashed /\ pc[t] = "rel_unlock0"
    /\ Goto(t, "rel_delete")
    /\ UNCHANGED <<m_refCount, m_lockPolicy, holders, objState, lockFrees, tmp,
                   via, crashed, refs, dtorCount, hist, flags, zeroCount,
                   staleCalls,
                   copyVars>>

\* m_refCounterLock->Unlock(); on the zero path
ReleaseUnlockZero(t) ==
    /\ ~crashed /\ pc[t] = "rel_unlock0"
    /\ Unlock(t)
    /\ Goto(t, "rel_delete")
    /\ UNCHANGED <<m_refCount, m_lockPolicy, objState, lockFrees, tmp, via,
                   crashed, refs, dtorCount, hist, flags, zeroCount,
                   staleCalls,
                   copyVars>>

\* EP_DELETE this; the destructor is entered.
ReleaseDelete(t) ==
    /\ ~crashed /\ pc[t] = "rel_delete"
    /\ Goto(t, "dtor_lock")
    /\ via' = [via EXCEPT ![t] = "release"]
    /\ dtorCount' = [dtorCount EXCEPT ![t] = @ + 1]
    /\ UNCHANGED <<m_refCount, m_lockPolicy, holders, objState, lockFrees, tmp,
                   crashed, refs, hist, flags, zeroCount,
                   staleCalls,
                   copyVars>>

\* The error-signalling macros leave the call at once: the caller sees
\* the error, the statements after the macro do not run.
Signal(t, ev) == Return(t, ev)

\* Release as it would be without the negative-count check.
ReleaseNegativeUnchecked(t) ==
    /\ ~crashed /\ pc[t] = "rel_test"
    /\ m_refCount < 0
    /\ Unlock(t)
    /\ Return(t, "Release")
    /\ UNCHANGED <<m_refCount, m_lockPolicy, objState, lockFrees, crashed,
                   refs, dtorCount, flags, zeroCount, staleCalls,
                   copyVars>>

\* if(m_refCount<0) EP_VERIFY_DOMAIN_ERROR_W_MSG(m_refCount>=0, errMsg);
ReleaseNegative(t) ==
    /\ ~crashed /\ pc[t] = "rel_test"
    /\ m_refCount < 0
    /\ Signal(t, "NegativeError")
    /\ UNCHANGED <<m_refCount, m_lockPolicy, holders, objState, lockFrees,
                   crashed, refs, dtorCount, flags, zeroCount,
                   staleCalls,
                   copyVars>>

\* Neither test fires: m_refCounterLock->Unlock(); and Release returns.
ReleaseReturn(t) ==
    /\ ~crashed /\ pc[t] = "rel_test"
    /\ m_refCount > 0
    /\ Unlock(t)
    /\ Return(t, "Release")
    /\ UNCHANGED <<m_refCount, m_lockPolicy, objState, lockFrees, crashed,
                   refs, dtorCount, flags, zeroCount,
                   staleCalls,
                   copyVars>>

----------------------------------------------------------------------------
\* ~SmartObject()

\* A client deletes the instance directly instead of releasing it ("direct").
CallDelete(t) ==
    /\ Start(t, "dtor_lock", {"direct"})
    /\ via' = [via EXCEPT ![t] = "direct"]
    /\ dtorCount' = [dtorCount EXCEPT ![t] = @ + 1]
    /\ refs' = IF refs > 0 THEN refs - 1 ELSE 0
    /\ UNCHANGED <<m_refCount, m_lockPolicy, holders, objState, lockFrees, tmp,
                   crashed, hist, zeroCount,
                   copyVars>>

\* The destructor as it would be without the Lock() call.
DtorNoLock(t) ==
    /\ ~crashed /\ pc[t] = "dtor_lock"
    /\ HasLock(m_lockPolicy)
    /\ Goto(t, "dtor_load")
    /\ UNCHANGED <<m_refCount, m_lockPolicy, holders, objState, lockFrees, tmp,
                   via, crashed, refs, dtorCount, hist, flags, zeroCount,
                   staleCalls,
                   copyVars>>

\* m_refCounterLock->Lock();
DtorLock(t) ==
    /\ ~crashed /\ pc[t] = "dtor_lock"
    /\ Acquire(t)
    /\ Goto(t, "dtor_load")
    /\ UNCHANGED <<m_refCount, m_lockPolicy, objState, lockFrees, tmp, via,
                   crashed, refs, dtorCount, hist, flags, zeroCount,
                   staleCalls,
                   copyVars>>

\* m_refCount-- (the read)
DtorLoad(t) ==
    /\ ~crashed /\ pc[t] = "dtor_load"
    /\ tmp' = [tmp EXCEPT ![t] = m_refCount]
    /\ Goto(t, "dtor_store")
    /\ UNCHANGED <<m_refCount, m_lockPolicy, holders, objState, lockFrees, via,
                   crashed, refs, dtorCount, hist, flags, zeroCount,
                   staleCalls,
                   copyVars>>

\* The destructor as it would be without its decrement.
DtorNoDecrement(t) ==
    /\ ~crashed /\ pc[t] = "dtor_store"
    /\ Store(tmp[t])
    /\ Goto(t, "dtor_test")
    /\ UNCHANGED <<m_lockPolicy, holders, objState, lockFrees, tmp, via,
                   crashed, refs, dtorCount, hist, flags, staleCalls,
                   copyVars>>

\* m_refCount-- (the write)
DtorStore(t) ==
    /\ ~crashed /\ pc[t] = "dtor_store"
    /\ Store(tmp[t] - 1)
    /\ tmp' = [tmp EXCEPT ![t] = @ - 1]
    /\ Goto(t, "dtor_test")
    /\ UNCHANGED <<m_lockPolicy, holders, objState, lockFrees, via,
                   crashed, refs, dtorCount, hist, flags,
                   staleCalls,
                   copyVars>>

\* if(m_refCount!=0) EP_VERIFY_RUNTIME_ERROR_W_MSG(m_refCount==0, errMsg);
\* The error leaves the destructor; whether the delete expression still
\* hands the memory back is up to the build.
DtorNonZero(t) ==
    /\ ~crashed /\ pc[t] = "dtor_test"
    /\ m_refCount # 0
    /\ objState' \in {objState, "freed"}
    /\ Signal(t, IF via[t] = "direct" THEN "DeleteNonZeroError"
                                     ELSE "NonZeroError")
    /\ UNCHANGED <<m_refCount, m_lockPolicy, holders, lockFrees, crashed,
                   refs, dtorCount, flags, zeroCount,
                   staleCalls,
                   copyVars>>

\* The destructor as it would be if it freed the lock without the Unlock().
DtorKeepLocked(t) ==
    /\ ~crashed /\ pc[t] = "dtor_test"
    /\ m_refCount = 0
    /\ Goto(t, "dtor_free")
    /\ UNCHANGED <<m_refCount, m_lockPolicy, holders, objState, lockFrees, tmp,
                   via, crashed, refs, dtorCount, hist, flags, zeroCount,
                   staleCalls, copyVars>>

\* The destructor as it would be without its test of the count.
DtorUnchecked(t) ==
    /\ ~crashed /\ pc[t] = "dtor_test"
    /\ Unlock(t)
    /\ Goto(t, "dtor_free")
    /\ UNCHANGED <<m_refCount, m_lockPolicy, objState, lockFrees, tmp, via,
                   crashed, refs, dtorCount, hist, flags, zeroCount,
                   staleCalls,
                   copyVars>>

\* m_refCounterLock->Unlock();
DtorUnlock(t) ==
    /\ ~crashed /\ pc[t] = "dtor_test"
    /\ m_refCount = 0
    /\ Unlock(t)
    /\ Goto(t, "dtor_free")
    /\ UNCHANGED <<m_refCount, m_lockPolicy, objState, lockFrees, tmp, via,
                   crashed, refs, dtorCount, hist, flags, zeroCount,
                   staleCalls,
                   copyVars>>

\* if(m_refCounterLock) EP_DELETE m_refCounterLock; the destructor ends,
\* the instance's memory is handed back and the call returns.
DtorFreeLock(t) ==
    /\ ~crashed /\ pc[t] = "dtor_free"
    /\ lockFrees' = lockFrees + 1
    /\ objState' = "freed"
    /\ Return(t, IF via[t] = "direct" THEN "Deleted" ELSE "Destroyed")
    /\ UNCHANGED <<m_refCount, m_lockPolicy, holders, crashed, refs,
                   dtorCount, flags, zeroCount,
                   staleCalls,
                   copyVars>>

----------------------------------------------------------------------------
\* Undefined behaviour.

LockPcs == {"ret_lock", "rel_lock", "dtor_lock"}

\* m_refCounterLock is NULL (unrecognized policy): Lock() through it faults.
NullLock(t) ==
    /\ ~crashed /\ pc[t] \in LockPcs
    /\ ~HasLock(m_lockPolicy)
    /\ crashed' = TRUE
    /\ UNCHANGED <<m_refCount, m_lockPolicy, holders, objState, lockFrees, pc,
                   tmp, via, refs, dtorCount, hist, flags, zeroCount,
                   staleCalls,
                   copyVars>>

\* A step of a call on an instance whose memory was handed back: the build
\* either faults here or, as the other actions have it, finds the old
\* contents still in place.
UseAfterFree(t) ==
    /\ ~crashed /\ pc[t] # "idle"
    /\ objState = "freed"
    /\ crashed' = TRUE
    /\ UNCHANGED <<m_refCount, m_lockPolicy, holders, objState, lockFrees, pc,
                   tmp, via, refs, dtorCount, hist, flags, zeroCount,
                   staleCalls,
                   copyVars>>

----------------------------------------------------------------------------
Next ==
    \E t \in Threads :
        \/ CallRetain(t) \/ RetainLock(t) \/ RetainLoad(t) \/ RetainStore(t)
        \/ RetainReturn(t)
        \/ CallRelease(t) \/ ReleaseLock(t) \/ ReleaseLoad(t)
        \/ ReleaseStore(t) \/ ReleaseZero(t) \/ ReleaseDummy(t)
        \/ ReleaseUnlockZero(t) \/ ReleaseDelete(t) \/ ReleaseNegative(t)
        \/ ReleaseReturn(t)
        \/ CallDelete(t) \/ DtorLock(t) \/ DtorLoad(t) \/ DtorStore(t)
        \/ DtorNonZero(t) \/ DtorUnlock(t) \/ DtorFreeLock(t)
        \/ NullLock(t) \/ UseAfterFree(t)

Spec == Init /\ [][Next]_vars

\* The steps of thread t inside a call it has started.
ThreadStep(t) ==
    \/ RetainLock(t) \/ RetainLoad(t) \/ RetainStore(t) \/ RetainReturn(t)
    \/ ReleaseLock(t) \/ ReleaseLoad(t) \/ ReleaseStore(t) \/ ReleaseZero(t)
    \/ ReleaseDummy(t) \/ ReleaseUnlockZero(t) \/ ReleaseDelete(t)
    \/ ReleaseNegative(t) \/ ReleaseReturn(t)
    \/ DtorLock(t) \/ DtorLoad(t) \/ DtorStore(t) \/ DtorNonZero(t)
    \/ DtorUnlock(t) \/ DtorFreeLock(t)

\* Fair scheduling: a thread that can take a step of its call, and stays
\* able to, takes it.  Nothing is assumed of the lock beyond that: a thread
\* waiting in Lock() may be overtaken any number of times.
FairSpec == Spec /\ \A t \in Threads : WF_vars(ThreadStep(t))

----------------------------------------------------------------------------
\* Several instances in the hands of one thread: construction, copy
\* construction, assignment, and Retain/Release calls that run from entry to
\* return without another call in between.

\* Addresses EP_NEW can return for a lock object; NULL is no lock.
LockAddrs == {"lock1", "lock2", "lock3"}
NULL == "NULL"

Constructed(o) == inst[o] # NoObject
LiveLocks == {inst[o].m_refCounterLock : o \in {i \in Instances : Constructed(i)}}

\* The switch of both constructors: a lock object at address a for the
\* three recognized policies, NULL for any other value.
NewLock(policy, a) == IF HasLock(policy) THEN a ELSE NULL

\* SmartObject(lockPolicyType)
Construct(o, lockPolicyType) ==
    /\ ~crashed /\ ~Constructed(o)
    /\ \E a \in LockAddrs \ LiveLocks :
          inst' = [inst EXCEPT ![o] =
                      [m_refCount |-> 1,
                       m_lockPolicy |-> lockPolicyType,
                       m_refCounterLock |-> NewLock(lockPolicyType, a),
                       copyOf |-> "none"]]
    /\ lastCall' = [op |-> "construct", self |-> o, b |-> "none", ret |-> "none"]
    /\ UNCHANGED <<sharedVars, crashed>>

\* A copy constructor that copies the members one by one.
CopyMemberwise(o, b) ==
    /\ ~crashed /\ o # b /\ ~Constructed(o) /\ Constructed(b)
    /\ inst' = [inst EXCEPT ![o] = [inst[b] EXCEPT !.copyOf = b]]
    /\ lastCall' = [op |-> "copy", self |-> o, b |-> b, ret |-> "none"]
    /\ UNCHANGED <<sharedVars, crashed>>

\* SmartObject(const SmartObject& b)
CopyConstruct(o, b) ==
    /\ ~crashed /\ o # b /\ ~Constructed(o) /\ Constructed(b)
    /\ \E a \in LockAddrs \ LiveLocks :
          inst' = [inst EXCEPT ![o] =
                      [m_refCount |-> 1,
                       m_lockPolicy |-> inst[b].m_lockPolicy,
                       m_refCounterLock |-> NewLock(inst[b].m_lockPolicy, a),
                       copyOf |-> b]]
    /\ lastCall' = [op |-> "copy", self |-> o, b |-> b, ret |-> "none"]
    /\ UNCHANGED <<sharedVars, crashed>>

\* An assignment that copies the members one by one.
AssignMemberwise(o, b) ==
    /\ ~crashed /\ Constructed(o) /\ Constructed(b)
    /\ inst' = [inst EXCEPT ![o] = [inst[b] EXCEPT !.copyOf = inst[o].copyOf]]
    /\ lastCall' = [op |-> "assign", self |-> o, b |-> b, ret |-> o]
    /\ UNCHANGED <<sharedVars, crashed>>

\* SmartObject & operator=(const SmartObject& b): neither operand's count,
\* lock or policy changes; the left operand is returned.
Assign(o, b) ==
    /\ ~crashed /\ Constructed(o) /\ Constructed(b)
    /\ lastCall' = [op |-> "assign", self |-> o, b |-> b, ret |-> o]
    /\ UNCHANGED <<sharedVars, crashed, inst>>

\* Retain() from Lock() to Unlock(); Lock() through a NULL m_refCounterLock
\* faults.
Retain(o) ==
    /\ ~crashed /\ Constructed(o)
    /\ inst[o].m_refCount < MaxRefCount
    /\ IF inst[o].m_refCounterLock = NULL
       THEN crashed' = TRUE /\ UNCHANGED inst
       ELSE /\ inst' = [inst EXCEPT ![o].m_refCount = @ + 1]
            /\ UNCHANGED crashed
    /\ lastCall' = [op |-> "retain", self |-> o, b |-> "none", ret |-> "none"]
    /\ UNCHANGED sharedVars

\* Release() from Lock() to its return: a count above 1 is decremented; a
\* count of 1 goes to 0 and back to 1, the lock is released, and delete this
\* runs the destructor, which takes the count to 0, frees the lock and ends
\* the instance.  Lock() through a NULL m_refCounterLock faults.
Release(o) ==
    /\ ~crashed /\ Constructed(o)
    /\ IF inst[o].m_refCounterLock = NULL
       THEN crashed' = TRUE /\ UNCHANGED inst
       ELSE /\ inst' = [inst EXCEPT ![o] =
                           IF inst[o].m_refCount - 1 = 0
                           THEN NoObject
                           ELSE [@ EXCEPT !.m_refCount = @ - 1]]
            /\ UNCHANGED crashed
    /\ lastCall' = [op |-> "release", self |-> o, b |-> "none", ret |-> "none"]
    /\ UNCHANGED sharedVars

\* The first instance has been constructed; the shared instance's variables
\* stay as that construction left them.
CopyInit ==
    /\ InitShared
    /\ \E a \in LockAddrs :
          inst = [o \in Instances |->
                    IF o = "O"
                    THEN [m_refCount |-> 1,
                          m_lockPolicy |-> m_lockPolicy,
                          m_refCounterLock |-> NewLock(m_lockPolicy, a),
                          copyOf |-> "none"]
                    ELSE NoObject]
    /\ lastCall = [op |-> "construct", self |-> "O", b |-> "none",
                   ret |-> "none"]

CopyNext ==
    \E o \in Instances :
        \/ \E lockPolicyType \in LockPolicies : Construct(o, lockPolicyType)
        \/ \E b \in Instances : CopyConstruct(o, b)
        \/ \E b \in Instances : Assign(o, b)
        \/ Retain(o)
        \/ Release(o)

CopySpec == CopyInit /\ [][CopyNext]_vars

----------------------------------------------------------------------------
\* Vocabulary of the properties.

RealLock == m_lockPolicy \in RealPolicies
Sequential == "overlap" \notin flags

\* The callers keep the lock policy's contract: a real lock, or NoLock with
\* calls that never overlap.
Serialized == RealLock \/ (m_lockPolicy = "LOCK_POLICY_NONE" /\ Sequential)

\* The clients release only references they own, retain only while some
\* owning reference keeps the instance alive, and never delete directly.
Disciplined == flags \cap {"unowned", "unkept", "direct"} = {}

DtorPcs == {"dtor_lock", "dtor_load", "dtor_store", "dtor_test", "dtor_free"}
StorePcs == {"ret_store", "rel_store", "rel_dummy", "dtor_store"}
DtorRuns == Sum(dtorCount, Threads)
Alive == objState = "alive" /\ DtorRuns = 0

Count(ev) == Cardinality({i \in 1..Len(hist) : hist[i] = ev})
Last(h) == h[Len(h)]

\* hist as k Retain calls followed by j Release calls.
ReleaseOutcomes == {"Release", "Destroyed", "NegativeError", "NonZeroError"}
LeadingRetains ==
    CHOOSE k \in 0..Len(hist) :
        /\ \A i \in 1..k : hist[i] = "Retain"
        /\ k < Len(hist) => hist[k + 1] # "Retain"
ReleasesDone == Len(hist) - LeadingRetains
RetainsThenReleases ==
    /\ Sequential
    /\ "direct" \notin flags
    /\ \A i \in (LeadingRetains + 1)..Len(hist) : hist[i] \in ReleaseOutcomes

\* Release calls that have found the count at zero after their decrement.
ZeroObserved ==
    Cardinality({t \in Threads :
                    pc[t] \in {"rel_dummy", "rel_unlock0", "rel_delete"}})
    + DtorRuns

----------------------------------------------------------------------------
\* C1: after construction and k Retain calls, of k+1 Release calls made one
\* after the other the first k return normally without destroying the
\* instance, and the (k+1)-th, the one that takes the count from 1 to 0,
\* destroys it: the destructor runs once and the memory is freed once.
C1_LastReleaseDestroys ==
    (RetainsThenReleases /\ ReleasesDone <= LeadingRetains + 1) =>
        LET k == LeadingRetains
            j == ReleasesDone
        IN  /\ \A i \in 1..j :
                  hist[k + i] = (IF i <= k THEN "Release" ELSE "Destroyed")
            /\ DtorRuns <= 1
            /\ DtorRuns = 1 => j >= k
            /\ j <= k /\ DtorRuns = 0 => objState = "alive" /\ lockFrees = 0
            /\ j = k + 1 => DtorRuns = 1 /\ objState = "freed" /\ lockFrees = 1

C1_Witness ==
    /\ Sequential
    /\ hist = <<"Retain", "Retain", "Retain",
                "Release", "Release", "Release", "Destroyed">>

\* C2: after construction, n Retain calls followed by n Release calls leave
\* the instance alive with count 1: no destructor run, no error signalled.
C2_BalancedCallsKeepAlive ==
    (RetainsThenReleases /\ ReleasesDone = LeadingRetains /\ InProgress = {}) =>
        /\ \A i \in (LeadingRetains + 1)..Len(hist) : hist[i] = "Release"
        /\ Alive
        /\ lockFrees = 0
        /\ m_refCount = 1
        /\ ~crashed

C2_Witness ==
    /\ Sequential
    /\ InProgress = {}
    /\ hist = <<"Retain", "Retain", "Retain", "Release", "Release", "Release">>

\* C3: with a real lock, when the owning references are released by Release
\* calls on different threads at once, at most one call finds the count at
\* zero, only that call's thread runs the destructor, and once every
\* reference is released the destructor has run exactly once.
C3_OneThreadDestroys ==
    (RealLock /\ Disciplined) =>
        /\ ZeroObserved <= 1
        /\ DtorRuns <= 1
        /\ DtorRuns = 1 => refs = 0
        /\ \A t \in Threads : pc[t] \in DtorPcs => dtorCount[t] = 1
        /\ (refs = 0 /\ InProgress = {}) =>
              /\ DtorRuns = 1
              /\ Count("Destroyed") = 1
              /\ lockFrees = 1
              /\ Count("NegativeError") + Count("NonZeroError") = 0
        /\ ~crashed

C3_Witness ==
    /\ RealLock /\ Disciplined
    /\ "overlap" \in flags
    /\ InProgress = {}
    /\ hist = <<"Retain", "Release", "Destroyed">>

\* C4: with a real lock, no increment or decrement of concurrent Retain and
\* Release calls is lost: when all calls have returned the count is
\* 1 + Retains - Releases, and while a reference is kept the instance is
\* alive and no error was signalled.
C4_NoLostUpdate ==
    (RealLock /\ Disciplined /\ InProgress = {}) =>
        /\ m_refCount = 1 + Count("Retain") - Count("Release")
                          - Count("Destroyed")
        /\ refs >= 1 =>
              /\ Alive
              /\ \A i \in 1..Len(hist) : hist[i] \in {"Retain", "Release"}
              /\ ~crashed

C4_Witness ==
    /\ RealLock /\ Disciplined
    /\ "overlap" \in flags
    /\ InProgress = {}
    /\ Count("Retain") = NumThreads /\ Count("Release") = NumThreads
    /\ m_refCount = 1

\* C5: the Release that brought the count to zero has unlocked the lock
\* before the destructor begins, and does not hold it when the lock is freed.
C5_UnlockBeforeDestroy ==
    \A t \in Threads :
        (via[t] = "release" /\ pc[t] \in {"dtor_lock", "dtor_free"}) =>
            t \notin holders

C5_Witness ==
    \E t \in Threads :
        RealLock /\ via[t] = "release" /\ pc[t] = "dtor_lock" /\ holders = {}

\* C6: every write of the count (Retain's increment, Release's decrement and
\* dummy addition, the destructor's decrement) is made by a thread that
\* holds the lock; a real lock is held by that thread alone.
C6_CountWrittenUnderLock ==
    \A t \in Threads :
        pc[t] \in StorePcs =>
            /\ t \in holders
            /\ RealLock => holders = {t}

C6_Witness ==
    \E t \in Threads : RealLock /\ pc[t] = "dtor_store" /\ holders = {t}

\* Release calls whose decrement has written 0, found or not yet found.
ReleaseZeroed ==
    Cardinality({t \in Threads : pc[t] = "rel_test" /\ tmp[t] = 0})
    + ZeroObserved

\* Destructor runs whose decrement has been written.
DtorDecremented ==
    Cardinality({t \in Threads : pc[t] \in {"dtor_test", "dtor_free"}})
    + Count("Destroyed") + Count("NonZeroError")

\* C7 as claimed: over the lifetime of the instance the count goes to 0 at
\* most once, one caller observes that, and it alone triggers destruction.
C7_Original ==
    (Serialized /\ Disciplined) =>
        /\ zeroCount <= 1
        /\ ZeroObserved <= 1
        /\ DtorRuns <= 1

\* C7 as amended: the decrement of a Release takes the count to 0 at most
\* once, exactly that call observes it and it alone triggers destruction;
\* the count goes to 0 a second time, in the destructor's own decrement that
\* undoes Release's dummy addition, and never again.
C7_ZeroOncePerReleaseAndDestructor ==
    (Serialized /\ Disciplined) =>
        /\ ReleaseZeroed <= 1
        /\ DtorRuns <= ReleaseZeroed
        /\ DtorDecremented <= DtorRuns
        /\ zeroCount = ReleaseZeroed + DtorDecremented
        /\ ReleaseZeroed = 1 => refs = 0
        /\ (refs = 0 /\ InProgress = {}) =>
              zeroCount = 2 /\ Count("Destroyed") = 1

C7_Witness ==
    /\ Serialized /\ Disciplined
    /\ InProgress = {}
    /\ Count("Retain") >= 1
    /\ Count("Destroyed") = 1
    /\ zeroCount = 2

\* C8: for clients that release only references they own and never delete
\* directly, while the instance is alive the count is not negative, and
\* whenever no call is in progress it equals the number of owning
\* references outstanding.
C8_CountIsOutstandingReferences ==
    (Serialized /\ flags \cap {"unowned", "direct"} = {} /\ Alive) =>
        /\ m_refCount >= 0
        /\ InProgress = {} => m_refCount = refs

C8_Witness ==
    /\ RealLock /\ Alive
    /\ "overlap" \in flags /\ flags \cap {"unowned", "direct"} = {}
    /\ InProgress = {}
    /\ Count("Release") >= 1
    /\ m_refCount = 2 /\ refs = 2

\* C9 as claimed, for the runs in which no call crashes: after k Retain
\* calls, the Release made one time too many (the (k+2)-th) signals the
\* negative-count error and no other Release does, neither before it nor
\* after it.
C9_Original ==
    (RetainsThenReleases /\ ~crashed) =>
        \A i \in 1..ReleasesDone :
            (hist[LeadingRetains + i] = "NegativeError")
                <=> (i = LeadingRetains + 2)

\* C9 as amended: none of the first k+1 Release calls signals the error
\* (the (k+1)-th destroys the instance); every later Release runs on the
\* destroyed instance, where it either crashes or signals the error, the
\* second such call like the first.
C9_NegativeErrorOnEveryStaleRelease ==
    RetainsThenReleases =>
        /\ \A i \in 1..ReleasesDone :
              (hist[LeadingRetains + i] = "NegativeError")
                  <=> (i >= LeadingRetains + 2)
        /\ (crashed /\ HasLock(m_lockPolicy)) =>
              /\ ReleasesDone >= LeadingRetains + 1
              /\ objState = "freed"

C9_Witness ==
    /\ Sequential
    /\ hist = <<"Retain", "Release", "Destroyed",
                "NegativeError", "NegativeError">>

DirectDeleteEnded ==
    /\ Sequential /\ flags = {"direct"}
    /\ DtorRuns = 1 /\ staleCalls = 0 /\ InProgress = {}
    /\ hist # <<>> /\ Last(hist) \in {"Deleted", "DeleteNonZeroError"}

\* C11: the destructor run directly on an instance whose count is greater
\* than 1 (references besides the deleted one remain) signals the
\* non-zero-count error and leaves the count one lower; run directly on an
\* instance whose count is exactly 1 it signals no error and leaves 0.
C11_DirectDelete ==
    DirectDeleteEnded =>
        /\ m_refCount = refs
        /\ (Last(hist) = "DeleteNonZeroError") <=> (refs >= 1)
        /\ (Last(hist) = "Deleted") <=> (refs = 0)

C11_Witness ==
    /\ DirectDeleteEnded
    /\ hist = <<"Retain", "Retain", "Release", "DeleteNonZeroError">>
    /\ m_refCount = 1

ErrorOutcomes == {"NegativeError", "NonZeroError", "DeleteNonZeroError"}
ErrorsSignalled == \E i \in 1..Len(hist) : hist[i] \in ErrorOutcomes

\* C12: on both misuse paths (Release finding a negative count, the
\* destructor finding a non-zero count) the lock is released before the error
\* leaves the call: in no state reached after an error has been signalled is
\* the lock still held by a thread whose call has ended.
C12_LockReleasedBeforeError ==
    (RealLock /\ ErrorsSignalled) =>
        \A t \in Threads : Idle(t) => t \notin holders

\* C13: copy-constructing o from b, whatever b's count is, gives o a count
\* of 1, b's lock policy and (where the policy has a lock) a lock object of
\* its own, distinct from b's and from every other live lock; the copy
\* leaves b, and every other instance, as it was; and a later Retain or
\* Release on one instance leaves every other instance's count, lock and
\* policy unchanged.
C13_CopyIsIndependent ==
    [][\A o \in Instances : \A b \in Instances \ {o} :
          /\ (lastCall'.op = "copy" /\ lastCall'.self = o /\ lastCall'.b = b
                /\ ~Constructed(o)) =>
                /\ inst'[o].m_refCount = 1
                /\ inst'[o].m_lockPolicy = inst[b].m_lockPolicy
                /\ HasLock(inst[b].m_lockPolicy) =>
                      /\ inst'[o].m_refCounterLock \in LockAddrs
                      /\ inst'[o].m_refCounterLock \notin LiveLocks
                /\ inst'[b] = inst[b]
          /\ (lastCall'.op \in {"retain", "release"} /\ lastCall'.self = o) =>
                inst'[b] = inst[b]]_vars

C13_Witness ==
    /\ Constructed("O") /\ Constructed("P")
    /\ inst["P"].copyOf = "O"
    /\ inst["O"].m_refCount = 2 /\ inst["P"].m_refCount = 3
    /\ inst["P"].m_lockPolicy = inst["O"].m_lockPolicy
    /\ inst["P"].m_refCounterLock # inst["O"].m_refCounterLock
    /\ lastCall.op = "release" /\ lastCall.self = "O"

\* C14: the assignment o = b changes neither operand's count, lock or lock
\* policy, whatever the two counts are, and returns a reference to the left
\* operand.
C14_AssignChangesNothing ==
    [][lastCall'.op = "assign" =>
          /\ inst' = inst
          /\ lastCall'.ret = lastCall'.self]_vars

C14_Witness ==
    /\ lastCall = [op |-> "assign", self |-> "O", b |-> "P", ret |-> "O"]
    /\ Constructed("O") /\ Constructed("P")
    /\ inst["O"].m_refCount = 1 /\ inst["P"].m_refCount = 3
    /\ inst["O"].m_lockPolicy # inst["P"].m_lockPolicy

\* C15: construction with a lock policy outside the three recognized kinds
\* fails at construction, so that no reachable state has a live instance
\* without a lock on which a Retain, a Release or the destructor is being
\* executed.
C15_NoCallOnLocklessInstance ==
    \A t \in Threads :
        (objState = "alive" /\ ~Idle(t)) => HasLock(m_lockPolicy)

\* C16: the lock is freed only by a destructor run that completes, after
\* that run's Unlock(): the freeing thread never holds the lock it frees, and
\* a destructor run that signals the non-zero-count error frees nothing.  For
\* clients that keep the contract and only use references they own, the lock
\* is freed exactly once, by the one destruction, while no thread holds it,
\* and after it has been freed no call is in progress or acquires it.
C16_LockFreedOnceAfterUnlock ==
    /\ RealLock => \A t \in Threads : pc[t] = "dtor_free" => t \notin holders
    /\ lockFrees = Count("Destroyed") + Count("Deleted")
    /\ (Serialized /\ Disciplined) =>
          /\ lockFrees <= 1
          /\ lockFrees = Count("Destroyed")
          /\ RealLock =>
                \A t \in Threads : pc[t] = "dtor_free" => holders = {}
          /\ lockFrees = 1 =>
                /\ InProgress = {}
                /\ RealLock => holders = {}

C16_Witness ==
    /\ RealLock /\ Disciplined /\ ~Sequential
    /\ lockFrees = 1 /\ holders = {}
    /\ hist = <<"Retain", "Release", "Destroyed">>

\* C17: Release's compensating increment pairs with the destructor's
\* decrement: for clients that keep the contract and only retain and release
\* references they own, under every interleaving the destructor that Release
\* invokes is entered with a count of 1, leaves it at 0, and never signals
\* the non-zero-count error.
C17_DummyPairsWithDestructor ==
    (Serialized /\ Disciplined) =>
        /\ \A t \in Threads :
              via[t] = "release" =>
                  /\ pc[t] \in {"dtor_lock", "dtor_load"} => m_refCount = 1
                  /\ pc[t] = "dtor_store" => (tmp[t] = 1 /\ m_refCount = 1)
                  /\ pc[t] \in {"dtor_test", "dtor_free"} => m_refCount = 0
        /\ Count("NonZeroError") = 0
        /\ Count("Destroyed") = 1 => m_refCount = 0

C17_Witness ==
    /\ RealLock /\ Disciplined /\ ~Sequential
    /\ \E t \in Threads : via[t] = "release" /\ pc[t] = "dtor_test"
    /\ m_refCount = 0
    /\ hist = <<"Retain", "Release">>

\* C18: with a non-recursive mutual-exclusion lock and fair scheduling,
\* every Retain and Release call of clients that keep the contract
\* eventually returns, the Release that reaches zero included, whose
\* destructor takes the same lock again; and as long as no error has been
\* signalled no thread holds the lock after its call has returned.
C18_CallsReturn ==
    /\ \A t \in Threads :
          (RealLock /\ Disciplined /\ ~Idle(t)) ~> (Idle(t) \/ ~Disciplined)
    /\ [](RealLock /\ ~ErrorsSignalled =>
              \A t \in Threads : Idle(t) => t \notin holders)

C18_Witness ==
    /\ RealLock /\ Disciplined /\ ~Sequential
    /\ InProgress = {} /\ holders = {}
    /\ hist = <<"Retain", "Release", "Destroyed">>
    /\ objState = "freed"

\* The runs C19 is about: a real lock, and clients whose only departure from
\* the contract is a Retain while no owning reference keeps the instance.
WindowRuns == RealLock /\ flags \cap {"unowned", "direct"} = {}
WaitingReleases == {u \in Threads : pc[u] = "rel_lock"}

\* C19: a Retain by another thread that acquires the lock between the final
\* Release's Unlock() and the destructor's Lock() is not lost: when the
\* destructor has decremented, the count equals the number of references
\* retained since and still owned (those whose Release waits for the lock
\* included), so it is not 0, and the destructor's next step signals the
\* non-zero-count error.
C19_WindowRetainIsSignalled ==
    /\ [](WindowRuns =>
            \A t \in Threads :
                (via[t] = "release" /\ pc[t] = "dtor_test") =>
                    m_refCount = refs + Cardinality(WaitingReleases))
    /\ [][\A t \in Threads :
            (WindowRuns /\ via[t] = "release" /\ pc[t] = "dtor_test"
                /\ refs >= 1 /\ pc'[t] # pc[t]) =>
                /\ pc'[t] = "idle"
                /\ hist' = Append(hist, "NonZeroError")
                /\ lockFrees' = lockFrees]_vars

C19_Witness ==
    /\ RealLock /\ flags = {"overlap", "unkept"}
    /\ hist = <<"Retain", "NonZeroError">>
    /\ m_refCount = 1 /\ refs = 1
    /\ DtorRuns = 1

====
